---- MODULE Spec2Model ----
(***************************************************************************)
(* Model of deploy.py (SQTPM deployment script).                           *)
(*                                                                         *)
(* Python strings are modelled as sequences of one-character strings, so   *)
(* that substring tests, splitting, stripping, basename and iteration over *)
(* a str behave as they do in the source.                                  *)
(***************************************************************************)
EXTENDS Naturals, Sequences, FiniteSets, TLC

VARIABLES
    fs,          \* host filesystem: absolute path -> "absent" | "dir" | "file"
    override,    \* docker-compose.override.yml: [exists, volumes]
    pc,          \* position of the current run of main()
    run,         \* locals of the current run of main()
    last,        \* record of the last completed planner call (history)
    inp,         \* input handed to a pure function under test
    out          \* its result

vars == <<fs, override, pc, run, last, inp, out>>

----------------------------------------------------------------------------
(* Python str / list primitives                                            *)

\* needle in hay (str.__contains__)
Contains(needle, hay) ==
    \/ needle = <<>>
    \/ \E i \in 0..(Len(hay) - Len(needle)) :
          /\ hay[i + 1] = needle[1]
          /\ SubSeq(hay, i + 1, i + Len(needle)) = needle

\* index of the first occurrence of character c in s, 0 when there is none
Find(s, c) ==
    IF \E i \in 1..Len(s) : s[i] = c
    THEN CHOOSE i \in 1..Len(s) : s[i] = c /\ \A j \in 1..(i - 1) : s[j] # c
    ELSE 0

\* index of the last occurrence of character c in s, 0 when there is none
RFind(s, c) ==
    IF \E i \in 1..Len(s) : s[i] = c
    THEN CHOOSE i \in 1..Len(s) : s[i] = c /\ \A j \in (i + 1)..Len(s) : s[j] # c
    ELSE 0

\* s.split(sep): all fields, empty ones included
RECURSIVE Split(_, _)
Split(s, sep) ==
    LET i == Find(s, sep)
    IN  IF i = 0 THEN <<s>>
        ELSE <<SubSeq(s, 1, i - 1)>> \o Split(SubSeq(s, i + 1, Len(s)), sep)

\* a split at the last sep instead of the first (s.rsplit(sep, 1))
SplitAtLast(s, sep) ==
    LET i == RFind(s, sep)
    IN  IF i = 0 THEN <<s>>
        ELSE <<SubSeq(s, 1, i - 1), SubSeq(s, i + 1, Len(s))>>

\* s.split(sep, 1): at most one split, at the first sep
Split1(s, sep) ==
    LET i == Find(s, sep)
    IN  IF i = 0 THEN <<s>>
        ELSE <<SubSeq(s, 1, i - 1), SubSeq(s, i + 1, Len(s))>>

\* s.rstrip(c)
RECURSIVE RStrip(_, _)
RStrip(s, c) ==
    IF Len(s) > 0 /\ s[Len(s)] = c THEN RStrip(SubSeq(s, 1, Len(s) - 1), c) ELSE s

\* s.lstrip(c)
RECURSIVE LStrip(_, _)
LStrip(s, c) ==
    IF Len(s) > 0 /\ s[1] = c THEN LStrip(Tail(s), c) ELSE s

\* s.strip(): the only whitespace of the model's alphabet is the blank
Strip(s) == LStrip(RStrip(s, " "), " ")

\* [f for f in fields if f.strip()] followed by f.strip()
RECURSIVE StripFields(_)
StripFields(fields) ==
    IF fields = <<>> THEN <<>>
    ELSE LET f == Strip(Head(fields))
         IN  (IF f # <<>> THEN <<f>> ELSE <<>>) \o StripFields(Tail(fields))

\* the elements of a list, as a set
Range(s) == {s[i] : i \in 1..Len(s)}

\* str.join(sep, parts)
RECURSIVE Join(_, _)
Join(parts, sep) ==
    IF parts = <<>> THEN <<>>
    ELSE IF Len(parts) = 1 THEN parts[1]
    ELSE parts[1] \o <<sep>> \o Join(Tail(parts), sep)

----------------------------------------------------------------------------
(* parse_assignment_pass_pairs                                             *)

\* one iteration of the loop over args_list: the pair of one token
ParseArg(arg) ==
    IF Find(arg, ":") # 0
    THEN LET parts == Split1(arg, ":")
         IN  [assignments |-> StripFields(Split(parts[1], ",")),
              pass_files  |-> StripFields(Split(parts[2], ","))]
    ELSE [assignments |-> StripFields(Split(arg, ",")),
          pass_files  |-> <<>>]

parse_assignment_pass_pairs(args_list) ==
    [i \in 1..Len(args_list) |-> ParseArg(args_list[i])]

----------------------------------------------------------------------------
(* Named strings of the model                                              *)

\* the working directory the script is started in (os.getcwd())
cwd == <<"/", "w">>

\* "/var/www/html"
server_root == <<"/", "v", "a", "r", "/", "w", "w", "w", "/", "h", "t", "m", "l">>

\* ":/var/www/html/", the text between host path and container name in a bind
MountSep == <<":">> \o server_root \o <<"/">>

\* "./data:/var/www/data", the baseline data volume
DataVolume ==
    <<".", "/", "d", "a", "t", "a", ":", "/", "v", "a", "r", "/", "w", "w", "w",
      "/", "d", "a", "t", "a">>

\* "sqtpm.cfg", the fixed container name of the config override
CfgName == <<"s", "q", "t", "p", "m", ".", "c", "f", "g">>

\* ":/var/www/html/sqtpm.cfg"
CfgNeedle == MountSep \o CfgName

\* paths a user may name (relative to cwd)
XH1 == <<"x", "/", "h", "1">>          \* directory x/h1
YH1 == <<"y", "/", "h", "1">>          \* directory y/h1, same basename as x/h1
H10 == <<"h", "1", "0">>               \* directory h10, h1 is a proper prefix
G == <<"g">>                           \* directory g
Dot == <<".">>                         \* the working directory itself
UP  == <<"u", ".", "p">>               \* password file u.p
Missing == <<"m">>                     \* a path that does not exist
BAK == CfgName \o <<"~">>              \* password file sqtpm.cfg~
DCfg == <<"d", "/">> \o CfgName        \* password file d/sqtpm.cfg
ACfg == <<"a", ".", "c">>              \* config file a.c
BCfg == <<"b", ".", "c">>              \* config file b.c

----------------------------------------------------------------------------
(* os.path                                                                 *)

\* os.path.basename(p): what follows the last "/"
Basename(p) == SubSeq(p, RFind(p, "/") + 1, Len(p))

\* the ".." / "." / "" resolution of os.path.normpath on path components
RECURSIVE NormComps(_, _)
NormComps(comps, acc) ==
    IF comps = <<>> THEN acc
    ELSE LET c == Head(comps)
         IN  IF c = <<>> \/ c = <<".">> THEN NormComps(Tail(comps), acc)
             ELSE IF c = <<".", ".">>
                  THEN NormComps(Tail(comps),
                                 IF acc = <<>> THEN acc
                                 ELSE SubSeq(acc, 1, Len(acc) - 1))
                  ELSE NormComps(Tail(comps), Append(acc, c))

\* os.path.abspath(p) = normpath(join(getcwd(), p))
AbspathOf(p) ==
    LET joined == IF Len(p) > 0 /\ p[1] = "/" THEN p ELSE cwd \o <<"/">> \o p
    IN  <<"/">> \o Join(NormComps(Split(joined, "/"), <<>>), "/")

\* the paths the model names, and their absolute paths computed once
UserPaths == {XH1, YH1, H10, G, Dot, UP, BAK, DCfg, ACfg, BCfg}
AbspathTable == [p \in UserPaths |-> AbspathOf(p)]
Abspath(p) == IF p \in UserPaths THEN AbspathTable[p] ELSE AbspathOf(p)

\* the absolute paths whose kind the model tracks; "/" and cwd are directories
FsPaths == {Abspath(p) : p \in {XH1, YH1, H10, G, UP, BAK, DCfg, ACfg, BCfg}}

\* kind of the file system object a path names
KindOf(f, p) ==
    IF p = <<>> THEN "absent"
    ELSE LET a == Abspath(p)
         IN  IF a = <<"/">> \/ a = cwd THEN "dir"
             ELSE IF a \in DOMAIN f THEN f[a]
             ELSE "absent"

Exists(f, p) == KindOf(f, p) # "absent"
IsDir(f, p)  == KindOf(f, p) = "dir"
IsFile(f, p) == KindOf(f, p) = "file"

----------------------------------------------------------------------------
(* update_docker_compose_override: the Mount Planner and its writer        *)

\* docker-compose.override.yml is absent
NoOverride == [exists |-> FALSE, has_volumes |-> FALSE, volumes |-> <<>>]

\* docker-compose.override.yml as yaml.dump writes it for a volume list
OverrideFile(volumes) == [exists |-> TRUE, has_volumes |-> TRUE, volumes |-> volumes]

\* docker-compose.override.yml opened for writing and nothing dumped into it
TruncatedOverride == [exists |-> TRUE, has_volumes |-> FALSE, volumes |-> <<>>]

\* a planner that starts from an empty list when there is no override file
ExistingVolumesNoBaseline(ov) ==
    IF ov.exists /\ ov.has_volumes THEN ov.volumes ELSE <<>>

\* existing_volumes as read at the start of the planner
ExistingVolumes(ov) ==
    IF ov.exists /\ ov.has_volumes THEN ov.volumes ELSE <<DataVolume>>

\* the container name of an assignment
AssignmentBasename(assignment) ==
    LET b == Basename(RStrip(assignment, "/"))
    IN  IF b = <<>> THEN Basename(Abspath(assignment)) ELSE b

\* f"{abs_path}:/var/www/html/{basename}"
VolumeMapping(path, basename) == Abspath(path) \o MountSep \o basename

\* the "already mounted" test: the needle occurs in some existing volume
AlreadyMounted(existing, basename) ==
    \E i \in 1..Len(existing) : Contains(MountSep \o basename, existing[i])

\* new_assignment_volumes, built by the loop over assignments
RECURSIVE NewAssignmentVolumes(_, _, _)
NewAssignmentVolumes(f, existing, assignments) ==
    IF assignments = <<>> THEN <<>>
    ELSE LET a == Head(assignments)
             b == AssignmentBasename(a)
         IN  (IF Exists(f, a) /\ IsDir(f, a) /\ ~AlreadyMounted(existing, b)
              THEN <<VolumeMapping(a, b)>> ELSE <<>>)
             \o NewAssignmentVolumes(f, existing, Tail(assignments))

\* new_pass_file_volumes, built by the loop over pass_files
RECURSIVE NewPassFileVolumes(_, _, _)
NewPassFileVolumes(f, existing, pass_files) ==
    IF pass_files = <<>> THEN <<>>
    ELSE LET p == Head(pass_files)
             b == Basename(p)
         IN  (IF Exists(f, p) /\ IsFile(f, p) /\ ~AlreadyMounted(existing, b)
              THEN <<VolumeMapping(p, b)>> ELSE <<>>)
             \o NewPassFileVolumes(f, existing, Tail(pass_files))

\* the config file is given and is a regular file (None is the empty string)
ConfigUsable(f, config_file) ==
    config_file # <<>> /\ Exists(f, config_file) /\ IsFile(f, config_file)

\* [v for v in existing_volumes if ":/var/www/html/sqtpm.cfg" not in v]
RECURSIVE WithoutConfig(_)
WithoutConfig(volumes) ==
    IF volumes = <<>> THEN <<>>
    ELSE (IF Contains(CfgNeedle, Head(volumes)) THEN <<>> ELSE <<Head(volumes)>>)
         \o WithoutConfig(Tail(volumes))

\* a planner that appends the new config mapping and leaves the old one
KeptVolumesNoReplace(f, existing, config_file) == existing

\* a planner that drops the old config mapping whatever it is given
KeptVolumesAlwaysFilter(f, existing, config_file) == WithoutConfig(existing)

\* existing_volumes after the config block
KeptVolumes(f, existing, config_file) ==
    IF ConfigUsable(f, config_file)
       /\ \E i \in 1..Len(existing) : Contains(CfgNeedle, existing[i])
    THEN WithoutConfig(existing)
    ELSE existing

\* new_config_volumes
NewConfigVolumes(f, config_file) ==
    IF ConfigUsable(f, config_file)
    THEN <<Abspath(config_file) \o CfgNeedle>>
    ELSE <<>>

\* all_volumes
AllVolumes(f, ov, assignments, config_file, pass_files) ==
    LET existing == ExistingVolumes(ov)
    IN  KeptVolumes(f, existing, config_file)
        \o NewAssignmentVolumes(f, existing, assignments)
        \o NewPassFileVolumes(f, existing, pass_files)
        \o NewConfigVolumes(f, config_file)

\* a planner that also removes the file when one entry follows the baseline
PlannerOutcomesOffByOne(f, ov, assignments, config_file, pass_files) ==
    LET all == AllVolumes(f, ov, assignments, config_file, pass_files)
    IN  IF Len(all) <= 2
        THEN {[file |-> NoOverride, ok |-> TRUE, all |-> all]}
        ELSE {[file |-> OverrideFile(all), ok |-> TRUE, all |-> all],
              [file |-> ov, ok |-> FALSE, all |-> all],
              [file |-> TruncatedOverride, ok |-> FALSE, all |-> all]}

\* the outcomes of one call: the file afterwards and the value returned.
\* Writing can fail before the file is opened (file untouched) or after
\* open(..., "w") truncated it.
PlannerOutcomes(f, ov, assignments, config_file, pass_files) ==
    LET all == AllVolumes(f, ov, assignments, config_file, pass_files)
    IN  IF Len(all) <= 1
        THEN {[file |-> NoOverride, ok |-> TRUE, all |-> all]}
        ELSE {[file |-> OverrideFile(all), ok |-> TRUE, all |-> all],
              [file |-> ov, ok |-> FALSE, all |-> all],
              [file |-> TruncatedOverride, ok |-> FALSE, all |-> all]}

----------------------------------------------------------------------------------------------------------------------------------------
(* Reading a bind string "host_path:container_path" back                   *)

HostPath(v) == SubSeq(v, 1, Find(v, ":") - 1)
ContainerPath(v) == SubSeq(v, Find(v, ":") + 1, Len(v))

\* "/var/www/html/sqtpm.cfg", the container path of the config override
CfgTarget == server_root \o <<"/">> \o CfgName

\* the container path of a ref mounted under its basename
TargetOf(basename) == server_root \o <<"/">> \o basename

\* the name under the server root an entry is mounted at ("" for others)
ContainerName(v) ==
    LET c == ContainerPath(v)
        n == Len(server_root) + 1
    IN  IF Len(c) >= n /\ SubSeq(c, 1, n) = server_root \o <<"/">>
        THEN SubSeq(c, n + 1, Len(c)) ELSE <<>>

\* the persisted declaration: the volume list in the override file
Declaration(ov) == IF ov.exists /\ ov.has_volumes THEN ov.volumes ELSE <<>>

\* no two entries of a volume list have the same container path
UniqueTargets(volumes) ==
    \A i, j \in 1..Len(volumes) :
        i # j => ContainerPath(volumes[i]) # ContainerPath(volumes[j])

\* the indices of the entries of a volume list that target path t
EntriesFor(volumes, t) == {i \in 1..Len(volumes) : ContainerPath(volumes[i]) = t}

----------------------------------------------------------------------------
(* Python values read from YAML                                            *)
(* A value carries its type: a str is not a list of its characters until   *)
(* a loop iterates over it.  A dict with fixed keys is a function on the   *)
(* key names; the assignments mapping, whose keys are user strings, is a   *)
(* sequence of key/value entries in document order.                        *)

PyNone == [t |-> "none"]
PyStr(s) == [t |-> "str", s |-> s]
PyList(l) == [t |-> "list", l |-> l]
PyDict(d) == [t |-> "dict", d |-> d]
PyMap(m) == [t |-> "map", m |-> m]
PyBool(b) == [t |-> "bool", b |-> b]

\* bool(v)
Truthy(v) ==
    CASE v.t = "none" -> FALSE
      [] v.t = "str"  -> v.s # <<>>
      [] v.t = "list" -> v.l # <<>>
      [] v.t = "dict" -> DOMAIN v.d # {}
      [] v.t = "map"  -> v.m # <<>>
      [] v.t = "bool" -> v.b

\* the items a for loop over v yields: a str yields its characters
Items(v) ==
    CASE v.t = "list" -> v.l
      [] v.t = "str"  -> [i \in 1..Len(v.s) |-> <<v.s[i]>>]
      [] OTHER        -> <<>>

\* key in config: a dict is asked for the key; the lists of the model hold
\* dicts only, so no element equals the key
HasKey(config, key) == config.t = "dict" /\ key \in DOMAIN config.d

\* d.get(key, default)
Get(d, key, default) == IF key \in DOMAIN d.d THEN d.d[key] ELSE default

----------------------------------------------------------------------------
(* parse_yaml_config                                                       *)

\* the deployments branch: both values are taken as they are
RECURSIVE DeploymentPairs(_)
DeploymentPairs(deployments) ==
    IF deployments = <<>> THEN <<>>
    ELSE LET d == Head(deployments)
             assignments == Get(d, "assignments", PyList(<<>>))
             password_files == Get(d, "password_files", PyList(<<>>))
         IN  (IF Truthy(assignments)
              THEN <<[assignments |-> assignments, pass_files |-> password_files]>>
              ELSE <<>>)
             \o DeploymentPairs(Tail(deployments))

\* the assignments branch: a str is wrapped, anything but a list becomes []
RECURSIVE MappingPairs(_)
MappingPairs(entries) ==
    IF entries = <<>> THEN <<>>
    ELSE LET e == Head(entries)
             pass_files == IF e.v.t = "str" THEN PyList(<<e.v.s>>)
                           ELSE IF e.v.t # "list" THEN PyList(<<>>)
                           ELSE e.v
         IN  <<[assignments |-> PyList(<<e.k>>), pass_files |-> pass_files]>>
             \o MappingPairs(Tail(entries))

\* the bare list branch: a str is wrapped, anything else is taken as it is
RECURSIVE ListPairs(_)
ListPairs(items) ==
    IF items = <<>> THEN <<>>
    ELSE LET item == Head(items)
             assignment == IF item.t = "dict" THEN Get(item, "assignment", PyNone)
                           ELSE PyNone
             password_files == IF item.t = "dict"
                               THEN Get(item, "password_files", PyList(<<>>))
                               ELSE PyNone
         IN  (IF item.t = "dict" /\ Truthy(assignment)
              THEN <<[assignments |-> PyList(<<assignment.s>>),
                      pass_files |-> IF password_files.t = "str"
                                     THEN PyList(<<password_files.s>>)
                                     ELSE password_files]>>
              ELSE <<>>)
             \o ListPairs(Tail(items))

parse_yaml_config(config) ==
    IF ~Truthy(config) THEN <<>>
    ELSE IF HasKey(config, "deployments")
    THEN IF config.d["deployments"].t = "list"
         THEN DeploymentPairs(config.d["deployments"].l)
         ELSE <<>>
    ELSE IF HasKey(config, "assignments")
    THEN IF config.d["assignments"].t = "map"
         THEN MappingPairs(config.d["assignments"].m)
         ELSE <<>>
    ELSE IF config.t = "list"
    THEN ListPairs(config.l)
    ELSE <<>>

----------------------------------------------------------------------------
(* Validation                                                              *)

\* a validation that only tests existence, not the kind
RECURSIVE ExistingAssignments(_, _)
ExistingAssignments(f, items) ==
    IF items = <<>> THEN <<>>
    ELSE (IF Exists(f, Head(items)) THEN <<Head(items)>> ELSE <<>>)
         \o ExistingAssignments(f, Tail(items))

\* validate_assignments, over the items the loop sees
RECURSIVE ValidAssignments(_, _)
ValidAssignments(f, items) ==
    IF items = <<>> THEN <<>>
    ELSE LET a == Head(items)
         IN  (IF Exists(f, a) /\ IsDir(f, a) THEN <<a>> ELSE <<>>)
             \o ValidAssignments(f, Tail(items))

validate_assignments(f, assignments) == ValidAssignments(f, Items(assignments))

\* validate_pass_files, over the items the loop sees
RECURSIVE ValidPassFiles(_, _)
ValidPassFiles(f, items) ==
    IF items = <<>> THEN <<>>
    ELSE LET p == Head(items)
         IN  (IF Exists(f, p) /\ IsFile(f, p) THEN <<p>> ELSE <<>>)
             \o ValidPassFiles(f, Tail(items))

validate_pass_files(f, pass_files) ==
    IF ~Truthy(pass_files) THEN <<>> ELSE ValidPassFiles(f, Items(pass_files))

\* validate_assignment_pass_pairs: the valid pairs hold plain lists
RECURSIVE validate_assignment_pass_pairs(_, _)
validate_assignment_pass_pairs(f, pairs) ==
    IF pairs = <<>> THEN <<>>
    ELSE LET valid_assignments == validate_assignments(f, Head(pairs).assignments)
             valid_pass_files == validate_pass_files(f, Head(pairs).pass_files)
         IN  (IF valid_assignments # <<>>
              THEN <<[assignments |-> valid_assignments,
                      pass_files |-> valid_pass_files]>>
              ELSE <<>>)
             \o validate_assignment_pass_pairs(f, Tail(pairs))

\* get_all_assignments_from_pairs, as the set built before list() orders it
RECURSIVE AllAssignments(_)
AllAssignments(pairs) ==
    IF pairs = <<>> THEN {}
    ELSE Range(Head(pairs).assignments) \cup AllAssignments(Tail(pairs))

\* get_all_pass_files_from_pairs, as the set built before list() orders it
RECURSIVE AllPassFiles(_)
AllPassFiles(pairs) ==
    IF pairs = <<>> THEN {}
    ELSE Range(Head(pairs).pass_files) \cup AllPassFiles(Tail(pairs))

\* list(a_set): the elements in any order
RECURSIVE ListsOf(_)
ListsOf(S) ==
    IF S = {} THEN {<<>>}
    ELSE UNION {{<<x>> \o l : l \in ListsOf(S \ {x})} : x \in S}

----------------------------------------------------------------------------
(* Bounds and input sets                                                   *)

\* most refs (assignments, password files, config file) one call names
MaxRefs == 2

\* most planner calls followed from an absent override file
MaxCalls == 2

\* longest command-line token tried alone, and longest tried in a list of two
MaxTokenLen == 4
MaxShortLen == 1

\* most pairs handed to validation, and most items of a YAML document
MaxPairs == 2

\* lists without repetition, of at most n elements of S
RECURSIVE ListsOver(_, _)
ListsOver(S, n) ==
    IF n = 0 THEN {<<>>}
    ELSE LET shorter == ListsOver(S, n - 1)
         IN  shorter \cup {Append(l, x) : l \in shorter, x \in S}

NoRepeat(l) == \A i, j \in 1..Len(l) : i # j => l[i] # l[j]

AssignmentLists == {l \in ListsOver({XH1, YH1, H10}, MaxRefs) : NoRepeat(l)}
PassFileLists   == {l \in ListsOver({UP, BAK, DCfg}, MaxRefs) : NoRepeat(l)}
ConfigFiles     == {<<>>, ACfg, BCfg}

\* the argument triples of update_docker_compose_override the model tries
PlannerInputs ==
    {in \in [assignments : AssignmentLists, config_file : ConfigFiles,
             pass_files : PassFileLists] :
        Len(in.assignments) + Len(in.pass_files)
            + (IF in.config_file = <<>> THEN 0 ELSE 1) <= MaxRefs}

Kinds == {"absent", "dir", "file"}

\* every path of the model exists with the kind its name suggests
NaturalFs ==
    [a \in FsPaths |->
        IF a \in {Abspath(XH1), Abspath(YH1), Abspath(H10), Abspath(G)}
        THEN "dir" ELSE "file"]

\* the paths whose kind differs from one use of the script to the next
MutablePaths == {Abspath(XH1), Abspath(BCfg)}

\* the file systems a sequence of planner calls is tried on
PlannerFs ==
    {NaturalFs} \cup {[NaturalFs EXCEPT ![a] = k] : a \in MutablePaths, k \in Kinds}

----------------------------------------------------------------------------
(* The Runtime Driver: commands handed to docker / docker-compose          *)

\* one step of a run: e names the command, a and p the container names it
\* is about, ok whether it returned zero (for "plan": whether the planner
\* returned True)
Ev(e, a, p, ok) == [e |-> e, a |-> a, p |-> p, ok |-> ok]

\* the commands of the link stage
LinkCommands == {"test_d", "test_f", "rm", "ln"}

\* the commands of the permission fixup
FixCommands == {"chown", "fix_perms"}

\* every command that reaches the container runtime
RuntimeCommands ==
    {"down", "build", "up", "ps", "reload", "status"} \cup LinkCommands \cup FixCommands

\* the basenames create_pass_file_links refuses (line 250)
BadBasenames == {<<>>, <<".">>, <<".", ".">>}

\* a get_assignment_basenames that returns the first basename alone
FirstBasenameOnly(assignments) ==
    IF assignments = <<>> THEN <<>> ELSE <<AssignmentBasename(Head(assignments))>>

\* get_assignment_basenames
RECURSIVE get_assignment_basenames(_)
get_assignment_basenames(assignments) ==
    IF assignments = <<>> THEN <<>>
    ELSE <<AssignmentBasename(Head(assignments))>>
         \o get_assignment_basenames(Tail(assignments))

\* a create_pass_file_links that returns False when rm -f fails
RECURSIVE PassFileOutcomesRmFatal(_, _)
PassFileOutcomesRmFatal(b, pass_files) ==
    IF pass_files = <<>> THEN {[trace |-> <<>>, ok |-> TRUE]}
    ELSE LET p == Basename(Head(pass_files))
             rest == PassFileOutcomesRmFatal(b, Tail(pass_files))
             linked == <<Ev("test_f", <<>>, p, TRUE), Ev("rm", b, p, TRUE)>>
         IN  {[trace |-> <<Ev("test_f", <<>>, p, FALSE)>> \o r.trace, ok |-> r.ok] :
                 r \in rest}
             \cup {[trace |-> linked \o <<Ev("ln", b, p, TRUE)>> \o r.trace,
                    ok |-> r.ok] : r \in rest}
             \cup {[trace |-> linked \o <<Ev("ln", b, p, FALSE)>>, ok |-> FALSE],
                   [trace |-> <<Ev("test_f", <<>>, p, TRUE), Ev("rm", b, p, FALSE)>>,
                    ok |-> FALSE]}

\* the ways the loop over pass_files can go for the assignment with
\* basename b: test -f fails (skip), or rm -f (whose return code is not
\* looked at) and ln -s are issued and ln -s succeeds (go on) or fails
\* (return False)
RECURSIVE PassFileOutcomes(_, _)
PassFileOutcomes(b, pass_files) ==
    IF pass_files = <<>> THEN {[trace |-> <<>>, ok |-> TRUE]}
    ELSE LET p == Basename(Head(pass_files))
             rest == PassFileOutcomes(b, Tail(pass_files))
             linked(rm) == <<Ev("test_f", <<>>, p, TRUE), Ev("rm", b, p, rm)>>
         IN  {[trace |-> <<Ev("test_f", <<>>, p, FALSE)>> \o r.trace, ok |-> r.ok] :
                 r \in rest}
             \cup {[trace |-> linked(rm) \o <<Ev("ln", b, p, TRUE)>> \o r.trace,
                    ok |-> r.ok] : r \in rest, rm \in BOOLEAN}
             \cup {[trace |-> linked(rm) \o <<Ev("ln", b, p, FALSE)>>, ok |-> FALSE] :
                    rm \in BOOLEAN}

\* a create_pass_file_links that gives up at the first assignment directory
\* it does not find in the container
RECURSIVE AssignmentOutcomesStop(_, _)
AssignmentOutcomesStop(basenames, pass_files) ==
    IF basenames = <<>> THEN {[trace |-> <<>>, ok |-> TRUE]}
    ELSE LET b == Head(basenames)
             rest == AssignmentOutcomesStop(Tail(basenames), pass_files)
         IN  IF b \in BadBasenames THEN rest
             ELSE {[trace |-> <<Ev("test_d", b, <<>>, FALSE)>>, ok |-> FALSE]}
                  \cup UNION {IF o.ok
                              THEN {[trace |-> <<Ev("test_d", b, <<>>, TRUE)>>
                                                \o o.trace \o r.trace,
                                     ok |-> r.ok] : r \in rest}
                              ELSE {[trace |-> <<Ev("test_d", b, <<>>, TRUE)>> \o o.trace,
                                     ok |-> FALSE]} :
                              o \in PassFileOutcomes(b, pass_files)}

\* the ways the loop over the assignments of one pair can go
RECURSIVE AssignmentOutcomes(_, _)
AssignmentOutcomes(basenames, pass_files) ==
    IF basenames = <<>> THEN {[trace |-> <<>>, ok |-> TRUE]}
    ELSE LET b == Head(basenames)
             rest == AssignmentOutcomes(Tail(basenames), pass_files)
         IN  IF b \in BadBasenames THEN rest
             ELSE {[trace |-> <<Ev("test_d", b, <<>>, FALSE)>> \o r.trace,
                    ok |-> r.ok] : r \in rest}
                  \cup UNION {IF o.ok
                              THEN {[trace |-> <<Ev("test_d", b, <<>>, TRUE)>>
                                                \o o.trace \o r.trace,
                                     ok |-> r.ok] : r \in rest}
                              ELSE {[trace |-> <<Ev("test_d", b, <<>>, TRUE)>> \o o.trace,
                                     ok |-> FALSE]} :
                              o \in PassFileOutcomes(b, pass_files)}

\* create_pass_file_links: the command sequences it can issue and the
\* value it returns with each
RECURSIVE create_pass_file_links(_)
create_pass_file_links(pairs) ==
    IF pairs = <<>> THEN {[trace |-> <<>>, ok |-> TRUE]}
    ELSE LET pair == Head(pairs)
             rest == create_pass_file_links(Tail(pairs))
         IN  IF pair.pass_files = <<>> THEN rest
             ELSE UNION {IF o.ok
                         THEN {[trace |-> o.trace \o r.trace, ok |-> r.ok] : r \in rest}
                         ELSE {o} :
                         o \in AssignmentOutcomes(
                                  get_assignment_basenames(pair.assignments),
                                  pair.pass_files)}

\* a fix_permissions_in_container that runs the script whatever chown
\* returned and reports what the script returned
FixPermissionsUnchecked ==
    {[trace |-> <<Ev("chown", <<>>, <<>>, c), Ev("fix_perms", <<>>, <<>>, f)>>,
      ok |-> f] : c \in BOOLEAN, f \in BOOLEAN}

\* fix_permissions_in_container: chown, then the fix-perms script; the
\* first command that fails ends it
fix_permissions_in_container ==
    {[trace |-> <<Ev("chown", <<>>, <<>>, TRUE), Ev("fix_perms", <<>>, <<>>, TRUE)>>,
      ok |-> TRUE],
     [trace |-> <<Ev("chown", <<>>, <<>>, FALSE)>>, ok |-> FALSE],
     [trace |-> <<Ev("chown", <<>>, <<>>, TRUE), Ev("fix_perms", <<>>, <<>>, FALSE)>>,
      ok |-> FALSE]}

----------------------------------------------------------------------------
(* State of a run and of the history                                       *)

\* the YAML file named by --yaml-file does not exist
NoFile == [t |-> "absent"]

\* what the command line and the YAML file of one invocation hold; yaml is
\* NoFile or what load_deploy_config reads from the file (None: unparseable
\* or empty)
Invocation(tokens, config_file, build_only, no_rebuild, cleanup, yaml) ==
    [tokens |-> tokens, config_file |-> config_file, build_only |-> build_only,
     no_rebuild |-> no_rebuild, cleanup |-> cleanup, yaml |-> yaml,
     list_pass_files |-> FALSE]

\* the same invocation with --list-pass-files
Listing(inv) == [inv EXCEPT !.list_pass_files = TRUE]

NoInvocation == Invocation(<<>>, <<>>, FALSE, FALSE, FALSE, PyNone)

\* the locals of main(); status is "running", "exit0", "exit1" or "crash"
\* (an exception nobody catches); trace is what the run did to the override
\* file and the commands it handed to the container runtime, in order;
\* start is the override file the run found
NoRun ==
    [mode |-> "none", inv |-> NoInvocation, pairs |-> <<>>, valid |-> <<>>,
     all_assignments |-> <<>>, all_pass_files |-> <<>>, config_file |-> <<>>,
     status |-> "none", trace |-> <<>>, start |-> NoOverride]

NoCall ==
    [op |-> "none", assignments |-> <<>>, pass_files |-> <<>>,
     config_file |-> <<>>, before |-> NoOverride, ok |-> TRUE,
     repeat |-> FALSE, dirty |-> FALSE, n |-> 0]

NoValue == [done |-> FALSE]

\* the record of a planner call
CallRecord(assignments, config_file, pass_files, o) ==
    [op |-> "plan", assignments |-> assignments, pass_files |-> pass_files,
     config_file |-> config_file, before |-> override, ok |-> o.ok,
     repeat |-> /\ last.op = "plan" /\ last.ok /\ ~last.dirty
                /\ last.assignments = assignments
                /\ last.pass_files = pass_files
                /\ last.config_file = config_file,
     dirty |-> FALSE, n |-> last.n + 1]

----------------------------------------------------------------------------
(* SpecPlanner: update_docker_compose_override called directly            *)

InitPlanner ==
    /\ fs \in PlannerFs
    /\ override = NoOverride
    /\ pc = "idle"
    /\ run = NoRun
    /\ last = NoCall
    /\ inp = NoValue
    /\ out = NoValue

\* one call of update_docker_compose_override
PlanCall(assignments, config_file, pass_files) ==
    \E o \in PlannerOutcomes(fs, override, assignments, config_file, pass_files) :
        /\ last.n < MaxCalls
        /\ override' = o.file
        /\ last' = CallRecord(assignments, config_file, pass_files, o)
        /\ UNCHANGED <<fs, pc, run, inp, out>>

\* the operator creates, removes or replaces a path between two calls
FsChange(a, k) ==
    /\ pc \in {"idle", "plan"}
    /\ fs[a] # k
    /\ fs' = [fs EXCEPT ![a] = k]
    /\ last' = [last EXCEPT !.dirty = TRUE]
    /\ UNCHANGED <<override, pc, run, inp, out>>

NextPlanner ==
    \/ \E in \in PlannerInputs :
          PlanCall(in.assignments, in.config_file, in.pass_files)

SpecPlanner == InitPlanner /\ [][NextPlanner]_vars

----------------------------------------------------------------------------
(* Spec: runs of main()                                                    *)

\* a command-line token "assignments:pass_files"
Token(assignments, pass_files) == assignments \o <<":">> \o pass_files

\* the YAML documents of the model
ListDoc ==
    PyList(<<PyDict([assignment |-> PyStr(XH1), password_files |-> PyStr(UP)])>>)
MappingDoc ==
    PyDict([assignments |-> PyMap(<<[k |-> XH1, v |-> PyStr(UP)],
                                    [k |-> H10, v |-> PyList(<<>>)]>>),
            config_file |-> PyStr(ACfg)])
DeploymentsDoc ==
    PyDict([deployments |->
              PyList(<<PyDict([assignments |-> PyList(<<YH1>>),
                               password_files |-> PyStr(UP)])>>)])
OtherDoc == PyDict([volumes |-> PyList(<<XH1>>)])
CleanupDoc == PyDict([cleanup |-> PyBool(TRUE)])

\* the invocations the model tries
Invocations ==
    {Invocation(<<t>>, c, FALSE, FALSE, FALSE, PyNone) :
        t \in {Token(XH1, UP), XH1 \o <<",">> \o YH1, YH1, H10, Dot},
        c \in {<<>>, ACfg}}
    \cup {Invocation(<<>>, <<>>, FALSE, FALSE, FALSE, y) :
            y \in {NoFile, PyNone, ListDoc, MappingDoc, DeploymentsDoc, OtherDoc,
                   CleanupDoc}}
    \cup {Listing(Invocation(<<>>, <<>>, FALSE, FALSE, FALSE, y)) :
            y \in {NoFile, PyNone}}
    \cup {Invocation(<<>>, <<>>, TRUE, TRUE, TRUE, ListDoc),
          Invocation(<<Token(XH1, UP), H10 \o <<",">> \o G>>, <<>>, FALSE, TRUE, FALSE, PyNone),
          Invocation(<<Token(XH1 \o <<",">> \o H10, UP)>>, <<>>, FALSE, FALSE, FALSE, PyNone),
          Invocation(<<XH1>>, <<>>, FALSE, FALSE, TRUE, PyNone),
          Invocation(<<>>, <<>>, FALSE, FALSE, TRUE, NoFile),
          Invocation(<<XH1>>, <<>>, TRUE, FALSE, FALSE, PyNone)}

\* the pairs of the command line, as Python lists
RECURSIVE AsPyPairs(_)
AsPyPairs(pairs) ==
    IF pairs = <<>> THEN <<>>
    ELSE <<[assignments |-> PyList(Head(pairs).assignments),
            pass_files |-> PyList(Head(pairs).pass_files)]>>
         \o AsPyPairs(Tail(pairs))

\* yaml_config.get(key, False) raises AttributeError on a list
GetRaises(yaml) == yaml.t # "dict"

\* a flag after lines 675-682: set on the command line or truthy in the YAML
Override(flag, yaml, key) ==
    flag \/ (yaml.t = "dict" /\ Truthy(Get(yaml, key, PyBool(FALSE))))

Init ==
    /\ fs = NaturalFs
    /\ override = NoOverride
    /\ pc = "idle"
    /\ run = NoRun
    /\ last = NoCall
    /\ inp = NoValue
    /\ out = NoValue

\* the run ends with an exit status
Exit(status) ==
    /\ pc' = "idle"
    /\ run' = [run EXCEPT !.status = status]

\* the run does the steps of events and goes on at stage next
Step(events, next) ==
    /\ pc' = next
    /\ run' = [run EXCEPT !.trace = @ \o events]

\* the run does the steps of events and ends with an exit status
ExitAfter(events, status) ==
    /\ pc' = "idle"
    /\ run' = [run EXCEPT !.trace = @ \o events, !.status = status]

\* main() up to the mode switch (lines 619-702)
Invoke(inv) ==
    /\ pc = "idle"
    /\ last.n < MaxCalls
    /\ UNCHANGED <<fs, override, last, inp, out>>
    /\ LET fresh == [NoRun EXCEPT !.inv = inv, !.start = override]
       IN
       IF inv.list_pass_files /\ inv.tokens = <<>> /\ inv.yaml = NoFile
       THEN /\ run' = [fresh EXCEPT !.mode = "list", !.status = "exit0"]
            /\ pc' = "idle"
       ELSE
       IF inv.tokens # <<>>
       THEN /\ run' = [fresh EXCEPT
                          !.mode = "cli", !.status = "running",
                          !.pairs = AsPyPairs(parse_assignment_pass_pairs(inv.tokens)),
                          !.config_file = inv.config_file]
            /\ pc' = IF inv.cleanup THEN "cleanup"
                     ELSE IF inv.build_only THEN "build" ELSE "validate"
       ELSE LET yaml == inv.yaml
                started == [fresh EXCEPT !.mode = "yaml"]
            IN  IF yaml \in {NoFile, PyNone}
                THEN /\ run' = [started EXCEPT !.status = "exit1"]
                     /\ pc' = "idle"
                ELSE LET parsed ==
                            [started EXCEPT
                                !.pairs = parse_yaml_config(yaml),
                                !.config_file =
                                    IF inv.config_file = <<>> /\ HasKey(yaml, "config_file")
                                    THEN yaml.d["config_file"].s
                                    ELSE inv.config_file]
                     IN  IF \/ (~inv.build_only /\ GetRaises(yaml))
                            \/ (~inv.no_rebuild /\ GetRaises(yaml))
                            \/ (~inv.cleanup /\ GetRaises(yaml))
                         THEN /\ run' = [parsed EXCEPT !.status = "crash"]
                              /\ pc' = "idle"
                         ELSE /\ run' = [parsed EXCEPT !.status = "running"]
                              /\ pc' = IF Override(inv.cleanup, yaml, "cleanup")
                                       THEN "cleanup"
                                       ELSE IF Override(inv.build_only, yaml, "build_only")
                                       THEN "build" ELSE "validate"

\* cleanup mode (lines 703-719): docker-compose down, then the file is
\* removed; an exception on the way ends the run with status 1
Cleanup(ok) ==
    /\ pc = "cleanup"
    /\ IF ok
       THEN /\ override' = NoOverride
            /\ last' = [NoCall EXCEPT !.op = "cleanup", !.before = override,
                                      !.n = last.n]
            /\ ExitAfter(<<Ev("down", <<>>, <<>>, TRUE)>>, "exit0")
       ELSE /\ UNCHANGED <<override, last>>
            /\ ExitAfter(<<Ev("down", <<>>, <<>>, FALSE)>>, "exit1")
    /\ UNCHANGED <<fs, inp, out>>

\* build-only mode (lines 721-745)
BuildOnly(ok) ==
    /\ pc = "build"
    /\ ExitAfter(<<Ev("build", <<>>, <<>>, ok)>>, IF ok THEN "exit0" ELSE "exit1")
    /\ UNCHANGED <<fs, override, last, inp, out>>

\* a main() that goes on to step 1 with whatever validation returned
ValidateNoExit ==
    /\ pc = "validate"
    /\ UNCHANGED <<fs, override, last, inp, out>>
    /\ LET valid == validate_assignment_pass_pairs(fs, run.pairs)
       IN  \E a \in ListsOf(AllAssignments(valid)),
              p \in ListsOf(AllPassFiles(valid)) :
               /\ run' = [run EXCEPT !.valid = valid,
                                     !.all_assignments = a,
                                     !.all_pass_files = p]
               /\ pc' = "plan"

\* validation and the two list(set(...)) calls (lines 747-756)
Validate ==
    /\ pc = "validate"
    /\ UNCHANGED <<fs, override, last, inp, out>>
    /\ LET valid == validate_assignment_pass_pairs(fs, run.pairs)
       IN  IF valid = <<>>
           THEN Exit("exit1")
           ELSE \E a \in ListsOf(AllAssignments(valid)),
                   p \in ListsOf(AllPassFiles(valid)) :
                    /\ run' = [run EXCEPT !.valid = valid,
                                          !.all_assignments = a,
                                          !.all_pass_files = p]
                    /\ pc' = "plan"

\* step 1 (lines 758-762): the planner writes the override file
Plan ==
    /\ pc = "plan"
    /\ \E o \in PlannerOutcomes(fs, override, run.all_assignments,
                                run.config_file, run.all_pass_files) :
          /\ override' = o.file
          /\ last' = CallRecord(run.all_assignments, run.config_file,
                                run.all_pass_files, o)
          /\ IF o.ok
             THEN Step(<<Ev("plan", <<>>, <<>>, TRUE)>>, "start")
             ELSE ExitAfter(<<Ev("plan", <<>>, <<>>, FALSE)>>, "exit1")
    /\ UNCHANGED <<fs, inp, out>>

\* a main() that puts back the override file it found when docker-compose
\* up fails
StartContainerRollback(ok) ==
    /\ pc = "start"
    /\ IF ok
       THEN /\ Step(<<Ev("up", <<>>, <<>>, TRUE)>>, "wait")
            /\ UNCHANGED override
       ELSE /\ ExitAfter(<<Ev("up", <<>>, <<>>, FALSE)>>, "exit1")
            /\ override' = run.start
    /\ UNCHANGED <<fs, last, inp, out>>

\* step 2 (lines 764-796): docker-compose up -d [--build]
StartContainer(ok) ==
    /\ pc = "start"
    /\ IF ok
       THEN Step(<<Ev("up", <<>>, <<>>, TRUE)>>, "wait")
       ELSE ExitAfter(<<Ev("up", <<>>, <<>>, FALSE)>>, "exit1")
    /\ UNCHANGED <<fs, override, last, inp, out>>

\* a main() that goes on to step 3 whatever wait_for_container returned
WaitIgnored(ok) ==
    /\ pc = "wait"
    /\ Step(<<Ev("ps", <<>>, <<>>, ok)>>,
            IF \E i \in 1..Len(run.valid) : run.valid[i].pass_files # <<>>
            THEN "links" ELSE "perms")
    /\ UNCHANGED <<fs, override, last, inp, out>>

\* lines 798-801 and the test of line 804: the polls of wait_for_container
\* end with one that reports "Up" (ok) or run out
WaitForContainer(ok) ==
    /\ pc = "wait"
    /\ IF ok
       THEN Step(<<Ev("ps", <<>>, <<>>, TRUE)>>,
                 IF \E i \in 1..Len(run.valid) : run.valid[i].pass_files # <<>>
                 THEN "links" ELSE "perms")
       ELSE ExitAfter(<<Ev("ps", <<>>, <<>>, FALSE)>>, "exit1")
    /\ UNCHANGED <<fs, override, last, inp, out>>

\* a main() that goes on to step 4 whatever create_pass_file_links returned
CreateLinksIgnored ==
    /\ pc = "links"
    /\ \E o \in create_pass_file_links(run.valid) : Step(o.trace, "perms")
    /\ UNCHANGED <<fs, override, last, inp, out>>

\* step 3 (lines 803-810)
CreateLinks ==
    /\ pc = "links"
    /\ \E o \in create_pass_file_links(run.valid) :
          IF o.ok THEN Step(o.trace, "perms") ELSE ExitAfter(o.trace, "exit1")
    /\ UNCHANGED <<fs, override, last, inp, out>>

\* step 4 (lines 812-816)
FixPermissions ==
    /\ pc = "perms"
    /\ \E o \in fix_permissions_in_container :
          IF o.ok THEN Step(o.trace, "reload") ELSE ExitAfter(o.trace, "exit1")
    /\ UNCHANGED <<fs, override, last, inp, out>>

\* a main() that exits with status 1 when the reload command fails
ReloadChecked(ok) ==
    /\ pc = "reload"
    /\ IF ok
       THEN ExitAfter(<<Ev("reload", <<>>, <<>>, TRUE), Ev("status", <<>>, <<>>, TRUE)>>,
                      "exit0")
       ELSE ExitAfter(<<Ev("reload", <<>>, <<>>, FALSE)>>, "exit1")
    /\ UNCHANGED <<fs, override, last, inp, out>>

\* step 5 and the report (lines 818-850): the reload and the closing
\* docker ps are run with check=False, their outcome is ignored
Reload(ok) ==
    /\ pc = "reload"
    /\ ExitAfter(<<Ev("reload", <<>>, <<>>, ok), Ev("status", <<>>, <<>>, TRUE)>>,
                 "exit0")
    /\ UNCHANGED <<fs, override, last, inp, out>>

Next ==
    \/ \E inv \in Invocations : Invoke(inv)
    \/ \E ok \in BOOLEAN : Cleanup(ok)
    \/ \E ok \in BOOLEAN : BuildOnly(ok)
    \/ Validate
    \/ Plan
    \/ \E ok \in BOOLEAN : StartContainer(ok)
    \/ \E ok \in BOOLEAN : WaitForContainer(ok)
    \/ CreateLinks
    \/ FixPermissions
    \/ \E ok \in BOOLEAN : Reload(ok)
    \/ \E a \in MutablePaths, k \in Kinds : FsChange(a, k)

Spec == Init /\ [][Next]_vars

----------------------------------------------------------------------------
(* Claims about the Mount Planner, checked under SpecPlanner               *)

\* the last step was a successful planner call on the file system as it is
Planned == last.op = "plan" /\ last.ok /\ ~last.dirty

\* C1: a planner call that repeats the previous call's arguments on an
\* unchanged file system leaves the persisted declaration as the previous
\* call left it, and that declaration has no two entries for one container
\* path.
C1_Idempotent ==
    (Planned /\ last.repeat) =>
        /\ override = last.before
        /\ UniqueTargets(Declaration(override))

\* C2: every entry of the declaration before a planner call, other than an
\* entry whose container path is exactly the config target, is still in the
\* declaration after the call, with the same host path.
C2_MonotonicGrowth ==
    Planned =>
        \A v \in Range(Declaration(last.before)) :
            ContainerPath(v) # CfgTarget => v \in Range(Declaration(override))

\* the case of C3: the declaration before the call had an entry for the
\* config target and the call names a usable config file with another path
C3_Case ==
    /\ Planned
    /\ ConfigUsable(fs, last.config_file)
    /\ EntriesFor(Declaration(last.before), CfgTarget) # {}
    /\ \A i \in EntriesFor(Declaration(last.before), CfgTarget) :
          HostPath(Declaration(last.before)[i]) # Abspath(last.config_file)

\* C3: after replacing a config override, exactly one entry targets the
\* config container path and its host path is the new config file's
\* absolute path.
C3_ConfigReplaced ==
    C3_Case =>
        /\ Cardinality(EntriesFor(Declaration(override), CfgTarget)) = 1
        /\ \A i \in EntriesFor(Declaration(override), CfgTarget) :
              HostPath(Declaration(override)[i]) = Abspath(last.config_file)

C3_Witness == C3_Case

\* some entry of the declaration has exactly the container path of name b
Targeted(b) == EntriesFor(Declaration(override), TargetOf(b)) # {}

\* C18: after a successful planner call, the container path of every valid
\* assignment and password file it was given is the target of some entry:
\* a ref is skipped only when an existing entry has exactly its container
\* path, also when its basename is a proper prefix of a mounted name.
C18_ExactTargetSkip ==
    Planned =>
        /\ \A a \in Range(last.assignments) :
              IsDir(fs, a) => Targeted(AssignmentBasename(a))
        /\ \A q \in Range(last.pass_files) :
              IsFile(fs, q) => Targeted(Basename(q))

\* the entries of a volume list that target the config container path
ConfigEntries(volumes) == {volumes[i] : i \in EntriesFor(volumes, CfgTarget)}

\* the case of C20: the declaration before the call had an entry for the
\* config target and the call names no config file, or one that does not
\* exist or is not a regular file
C20_Case ==
    /\ Planned
    /\ ~ConfigUsable(fs, last.config_file)
    /\ ConfigEntries(Declaration(last.before)) # {}

\* C20: a planner call without a usable config file leaves the entries for
\* the config container path as they were: none removed, none replaced,
\* none added.
C20_ConfigUntouched ==
    C20_Case =>
        /\ ConfigEntries(Declaration(override)) = ConfigEntries(Declaration(last.before))
        /\ EntriesFor(Declaration(override), CfgTarget)
              = EntriesFor(Declaration(last.before), CfgTarget)

\* a call that names a config file which is not a regular file, after a
\* call that mounted one
C20_Witness == C20_Case /\ last.config_file # <<>>

----------------------------------------------------------------------------
(* Claims about runs of main(), checked under Spec                         *)

\* C4: no two entries of the persisted declaration have the same container
\* path, whatever deploy invocations led to it.
C4_UniqueContainerPaths == UniqueTargets(Declaration(override))

\* the planner call of this run succeeded, on the file system as it is now
PlannedInRun ==
    Planned /\ \E i \in 1..Len(run.trace) : run.trace[i].e = "plan" /\ run.trace[i].ok

RECURSIVE DeclaredAssignments(_)
DeclaredAssignments(pairs) ==
    IF pairs = <<>> THEN <<>>
    ELSE Head(pairs).assignments \o DeclaredAssignments(Tail(pairs))

\* the first declared assignment of the run with basename b
FirstDeclared(b) ==
    LET d == DeclaredAssignments(run.valid)
        i == CHOOSE i \in 1..Len(d) :
                /\ AssignmentBasename(d[i]) = b
                /\ \A j \in 1..(i - 1) : AssignmentBasename(d[j]) # b
    IN  d[i]

\* assignment a of the last planner call collides: another requested
\* directory, or an entry mounted by an earlier call, has the same basename
\* and another source path
Collides(a) ==
    /\ IsDir(fs, a)
    /\ \/ \E b \in Range(last.assignments) :
             /\ IsDir(fs, b)
             /\ AssignmentBasename(b) = AssignmentBasename(a)
             /\ Abspath(b) # Abspath(a)
       \/ \E i \in EntriesFor(Declaration(last.before),
                              TargetOf(AssignmentBasename(a))) :
             HostPath(Declaration(last.before)[i]) # Abspath(a)

\* C5: when two valid assignment directories with one basename and different
\* source paths are requested, in one invocation or in successive ones, the
\* declaration has exactly one entry for that basename's container path and
\* its host path is the first declared source.
C5_FirstDeclaredWins ==
    Planned =>
        \A a \in Range(last.assignments) :
            Collides(a) =>
                LET t == TargetOf(AssignmentBasename(a))
                    old == EntriesFor(Declaration(last.before), t)
                    now == EntriesFor(Declaration(override), t)
                IN  /\ Cardinality(now) = 1
                    /\ \A i \in now :
                          HostPath(Declaration(override)[i]) =
                              IF old # {}
                              THEN HostPath(Declaration(last.before)[CHOOSE k \in old : TRUE])
                              ELSE Abspath(FirstDeclared(AssignmentBasename(a)))

\* C6: validation drops every ref whose basename is empty, "." or "..", so
\* no entry with such a container name is ever in the declaration.
C6_ValidBasenames ==
    /\ \A i \in 1..Len(run.valid) :
          \A a \in Range(run.valid[i].assignments) :
              AssignmentBasename(a) \notin BadBasenames
    /\ \A v \in Range(Declaration(override)) :
          v # DataVolume => ContainerName(v) \notin BadBasenames

\* the items of a bare list document that name an assignment
ItemsWithAssignment(doc) ==
    {i \in 1..Len(doc.l) :
        doc.l[i].t = "dict" /\ Truthy(Get(doc.l[i], "assignment", PyNone))}

\* C9: a run configured by a bare top-level list is not aborted while the
\* scalar overrides are extracted, and has one pair per item that names an
\* assignment.
C9_BareListAccepted ==
    (run.mode = "yaml" /\ run.inv.yaml.t = "list") =>
        /\ run.status # "crash"
        /\ Len(run.pairs) = Cardinality(ItemsWithAssignment(run.inv.yaml))

\* the run is over
Ended == run.status \in {"exit0", "exit1", "crash"}

\* the run is a deploy run: it is not a listing, and neither the command
\* line nor the YAML document asks for cleanup or build-only
NormalDeploy ==
    /\ run.mode \in {"cli", "yaml"}
    /\ ~Override(run.inv.cleanup, run.inv.yaml, "cleanup")
    /\ ~Override(run.inv.build_only, run.inv.yaml, "build_only")

\* the commands of the trace that reached the container runtime
Commands(trace) == {i \in 1..Len(trace) : trace[i].e \in RuntimeCommands}

\* C11: a deploy run whose configuration is unparseable or of no known
\* shape, or whose pairs are all dropped by validation, ends with a
\* non-zero status, leaves the override file as it found it and hands no
\* command to the container runtime.
C11_NothingToDeployFatal ==
    (Ended /\ NormalDeploy /\ run.valid = <<>>)
    => /\ run.status # "exit0"
       /\ override = run.start
       /\ Commands(run.trace) = {}

\* a run whose pairs were all dropped by validation
C11_Witness ==
    /\ Ended /\ NormalDeploy /\ run.valid = <<>>
    /\ run.pairs # <<>>
    /\ run.status = "exit1"

\* the positions of the trace where one of the steps named in es was taken
At(trace, es) == {i \in 1..Len(trace) : trace[i].e \in es}

\* the positions of the trace where a step named in es succeeded
OkAt(trace, es) == {i \in At(trace, es) : trace[i].ok}

\* every step named in later comes after a successful step named in earlier
After(trace, later, earlier) ==
    \A i \in At(trace, later) : \E j \in OkAt(trace, earlier) : j < i

\* C12: in every run the planner has returned True before docker-compose up
\* is issued, a readiness poll has succeeded before any command of the link
\* stage, every command of the link stage comes before the commands of the
\* permission fixup, and the reload comes only after both fixup commands
\* succeeded.
C12_StageOrdering ==
    /\ After(run.trace, {"up"}, {"plan"})
    /\ After(run.trace, {"ps"}, {"up"})
    /\ After(run.trace, LinkCommands, {"ps"})
    /\ \A i \in At(run.trace, LinkCommands), j \in At(run.trace, FixCommands) : i < j
    /\ After(run.trace, FixCommands, {"ps"})
    /\ After(run.trace, {"reload"}, {"chown"})
    /\ After(run.trace, {"reload"}, {"fix_perms"})

\* a run that went through every stage and linked a password file
C12_Witness ==
    /\ run.status = "exit0"
    /\ OkAt(run.trace, {"ln"}) # {}
    /\ At(run.trace, {"reload"}) # {}

\* the steps whose failure is fatal: the planner's write, docker-compose up,
\* the readiness wait, ln -s, and the two commands of the permission fixup
FatalSteps == {"plan", "up", "ps", "ln"} \cup FixCommands

\* C13: when the planner's write, the container start, the readiness wait,
\* a link-creation command or a command of the permission fixup fails, the
\* run takes no further step and ends with a non-zero status.
C13_ShortCircuit ==
    \A i \in At(run.trace, FatalSteps) :
        ~run.trace[i].ok => i = Len(run.trace) /\ run.status \in {"exit1", "crash"}

\* a run that ended at a failed ln -s after an earlier link was created
C13_Witness ==
    /\ Len(run.trace) > 0
    /\ run.trace[Len(run.trace)].e = "ln"
    /\ ~run.trace[Len(run.trace)].ok
    /\ OkAt(run.trace, {"ln"}) # {}
    /\ run.status = "exit1"

\* validation kept a pair, and the planner's write, the container start,
\* the readiness wait, every ln -s and both fixup commands succeeded
AllSucceeded ==
    /\ run.valid # <<>>
    /\ \A e \in {"plan", "up", "ps", "chown", "fix_perms"} : OkAt(run.trace, {e}) # {}
    /\ \A i \in At(run.trace, FatalSteps) : run.trace[i].ok

\* C14: a deploy run that has ended has status zero exactly when validation
\* kept at least one pair and the write, the start, the wait, every link
\* creation and the permission fixup succeeded, whatever the reload
\* command returned.
C14_ExitStatus ==
    (Ended /\ NormalDeploy) => (run.status = "exit0" <=> AllSucceeded)

\* a run that ended with status zero although its reload command failed
C14_Witness ==
    /\ Ended /\ NormalDeploy /\ run.status = "exit0"
    /\ \E i \in At(run.trace, {"reload"}) : ~run.trace[i].ok

\* the host directories the declaration mounts at /var/www/html/<b>
MountedAt(b) ==
    {HostPath(Declaration(override)[i]) :
        i \in EntriesFor(Declaration(override), TargetOf(b))}

\* some validated pair of the run holds both an assignment whose directory
\* is h and a password file named p
PairedInRun(h, p) ==
    \E k \in 1..Len(run.valid) :
        /\ \E a \in Range(run.valid[k].assignments) : Abspath(a) = h
        /\ \E q \in Range(run.valid[k].pass_files) : Basename(q) = p

\* some validated pair of the run with password files holds an assignment
\* with basename b
LinkedBasename(b) ==
    \E k \in 1..Len(run.valid) :
        /\ run.valid[k].pass_files # <<>>
        /\ \E a \in Range(run.valid[k].assignments) : AssignmentBasename(a) = b

\* C16: a link to password file p is created in the directory mounted for
\* assignment A only if one validated pair holds both A and p, and the link
\* stage issues a check or a link command for an assignment only on behalf
\* of a pair that has password files.
C16_NoCrossLinking ==
    /\ \A i \in OkAt(run.trace, {"ln"}) :
          \A h \in MountedAt(run.trace[i].a) : PairedInRun(h, run.trace[i].p)
    /\ \A i \in At(run.trace, {"test_d", "rm", "ln"}) : LinkedBasename(run.trace[i].a)

\* the distinct refs of the validated pairs
RunRefs == AllAssignments(run.valid) \cup AllPassFiles(run.valid)

\* the container name of a ref of the run
RefName(ref) ==
    IF ref \in AllAssignments(run.valid) THEN AssignmentBasename(ref) ELSE Basename(ref)

\* nothing was dropped by validation, every ref is still valid, no list
\* names a ref twice and no two refs have the same basename
AllValidDistinct ==
    /\ Len(run.valid) = Len(run.pairs)
    /\ \A k \in 1..Len(run.valid) :
          /\ run.pairs[k].assignments = PyList(run.valid[k].assignments)
          /\ run.pairs[k].pass_files = PyList(run.valid[k].pass_files)
          /\ NoRepeat(run.valid[k].assignments)
          /\ NoRepeat(run.valid[k].pass_files)
    /\ \A a \in AllAssignments(run.valid) : IsDir(fs, a)
    /\ \A q \in AllPassFiles(run.valid) : IsFile(fs, q)
    /\ \A x, y \in RunRefs : x # y => RefName(x) # RefName(y)

\* the (assignment, password file) combinations within the pairs, by name
Combinations ==
    UNION {{<<AssignmentBasename(a), Basename(q)>> :
               a \in Range(run.valid[k].assignments),
               q \in Range(run.valid[k].pass_files)} : k \in 1..Len(run.valid)}

\* the case of C17: a run from no override file, without config override
C17_Case ==
    /\ PlannedInRun
    /\ run.start = NoOverride
    /\ run.config_file = <<>>
    /\ AllValidDistinct

\* the link stage is over and none of its checks or commands failed
LinksDone ==
    /\ pc \in {"perms", "reload"} \/ At(run.trace, FixCommands) # {}
    /\ \A i \in At(run.trace, LinkCommands) : run.trace[i].ok

\* C17: a run from no persisted declaration, with all refs valid, distinct
\* basenames and no config override, persists 1 + (distinct assignments)
\* + (distinct password files) entries, and when every pre-check passes it
\* creates exactly one link per (assignment, password file) combination of
\* each pair.
C17_EndToEndCount ==
    C17_Case =>
        /\ Len(Declaration(override)) =
              1 + Cardinality(AllAssignments(run.valid))
                + Cardinality(AllPassFiles(run.valid))
        /\ LinksDone =>
              /\ {<<run.trace[i].a, run.trace[i].p>> : i \in At(run.trace, {"ln"})}
                    = Combinations
              /\ Cardinality(At(run.trace, {"ln"})) = Cardinality(Combinations)

\* the run over [({x/h1}, {u.p}), ({h10, g}, {})]: 5 entries, one link, in h1
C17_Witness ==
    /\ C17_Case /\ LinksDone
    /\ Len(run.valid) = 2
    /\ run.valid[2].assignments = <<H10, G>>
    /\ Len(Declaration(override)) = 5
    /\ Cardinality(At(run.trace, {"ln"})) = 1
    /\ run.status = "exit0"

\* C23: a failed ln -s is the last step of its run, so no check, link
\* command, fixup or reload follows it, and the run ends with status 1; rm -f
\* is always followed by its ln -s whatever it returned, and a run that ends
\* with status 1 after some step ends at a failed fatal step, never at rm -f.
C23_LinkFailureAborts ==
    /\ \A i \in At(run.trace, {"ln"}) :
          ~run.trace[i].ok => i = Len(run.trace) /\ run.status = "exit1"
    /\ \A i \in At(run.trace, {"rm"}) :
          /\ i < Len(run.trace)
          /\ run.trace[i + 1].e = "ln"
          /\ run.trace[i + 1].a = run.trace[i].a
          /\ run.trace[i + 1].p = run.trace[i].p
    /\ (run.status = "exit1" /\ At(run.trace, LinkCommands) # {}) =>
          LET e == run.trace[Len(run.trace)]
          IN  ~e.ok /\ e.e \in FatalSteps

\* a run that ended at a failed ln -s, after an rm -f that failed and whose
\* ln -s went through
C23_Witness ==
    /\ run.status = "exit1"
    /\ Len(run.trace) > 2
    /\ run.trace[Len(run.trace)].e = "ln"
    /\ ~run.trace[Len(run.trace)].ok
    /\ \E i \in At(run.trace, {"rm"}) : ~run.trace[i].ok /\ run.trace[i + 1].ok

\* C24: the fix-perms script is issued right after a chown -R that
\* succeeded and never otherwise; when either command fails it is the last
\* step of the run, which ends with status 1 and issues no reload.
C24_FixupOrder ==
    /\ \A i \in At(run.trace, {"fix_perms"}) :
          /\ i > 1
          /\ run.trace[i - 1].e = "chown"
          /\ run.trace[i - 1].ok
    /\ \A i \in At(run.trace, FixCommands) :
          ~run.trace[i].ok =>
              /\ i = Len(run.trace)
              /\ run.status = "exit1"
              /\ At(run.trace, {"reload"}) = {}

\* a run that ended at a failed fix-perms script after chown -R succeeded
C24_Witness ==
    /\ run.status = "exit1"
    /\ Len(run.trace) > 1
    /\ run.trace[Len(run.trace)].e = "fix_perms"
    /\ ~run.trace[Len(run.trace)].ok
    /\ run.trace[Len(run.trace) - 1].e = "chown"

\* the override files a successful planner call of the last call's
\* arguments leaves, on the file system as it is
WrittenByLastCall ==
    {o.file : o \in {x \in PlannerOutcomes(fs, last.before, last.assignments,
                                            last.config_file, last.pass_files) : x.ok}}

\* the run ended at a failed step of a stage after the planner's write
FailedAfterWrite ==
    /\ run.status = "exit1"
    /\ PlannedInRun
    /\ Len(run.trace) > 0
    /\ run.trace[Len(run.trace)].e \in {"up", "ps", "ln", "chown", "fix_perms"}
    /\ ~run.trace[Len(run.trace)].ok

\* C25: when the container start, the readiness wait, a link creation or the
\* permission fixup fails, the override file is the one the planner wrote in
\* this run and the failed step is the last thing the run did: nothing is
\* written, deleted or handed to the container runtime to undo earlier
\* stages.
C25_NoRollback ==
    /\ FailedAfterWrite => override \in WrittenByLastCall
    /\ \A i \in At(run.trace, {"up", "ps", "ln", "chown", "fix_perms"}) :
          ~run.trace[i].ok => i = Len(run.trace)

\* a run that found no override file, wrote one, created a link and then
\* ended at a failed chown -R
C25_Witness ==
    /\ FailedAfterWrite
    /\ run.start = NoOverride /\ override.exists
    /\ run.trace[Len(run.trace)].e = "chown"
    /\ OkAt(run.trace, {"ln"}) # {}

\* step 1 of a run whose validation kept a pair, taken while every kept
\* assignment is still the directory validation saw
ValidatedPlanStep ==
    /\ pc = "plan" /\ pc' # "plan"
    /\ run.valid # <<>>
    /\ \A i \in 1..Len(run.all_assignments) : IsDir(fs, run.all_assignments[i])

\* C26: when validation kept at least one pair and the kept assignments are
\* unchanged at planning time, the planner's volume list has at least two
\* entries, an override file that exists is not deleted, and after a
\* successful call the file exists and holds that list.
C26_NeverEmpties ==
    [][ValidatedPlanStep =>
          /\ Len(AllVolumes(fs, override, run.all_assignments, run.config_file,
                            run.all_pass_files)) >= 2
          /\ override.exists => override'.exists
          /\ last'.ok => /\ override'.exists /\ override'.has_volumes
                         /\ Len(override'.volumes) >= 2]_vars

\* a run with a validated pair whose planner call found no override file and
\* wrote one of exactly two entries
C26_Witness ==
    /\ PlannedInRun
    /\ run.valid # <<>>
    /\ last.before = NoOverride
    /\ override.exists /\ override.has_volumes
    /\ Len(override.volumes) = 2

\* cleanup is asked for, by --cleanup or by a truthy cleanup key
CleanupRequested ==
    /\ run.mode \in {"cli", "yaml"}
    /\ Override(run.inv.cleanup, run.inv.yaml, "cleanup")

\* C27: a finished run that was asked to clean up has issued docker-compose
\* down and nothing else (no planner call, container start, link, fixup or
\* reload), has kept no pair from validation, and, when the teardown command
\* could be run, has left no override file, so that the next planner call
\* starts from the baseline entry alone.
C27_CleanupMode ==
    (Ended /\ CleanupRequested) =>
        /\ Len(run.trace) = 1
        /\ run.trace[1].e = "down"
        /\ run.valid = <<>>
        /\ run.trace[1].ok =>
              /\ ~override.exists
              /\ ExistingVolumes(override) = <<DataVolume>>

----------------------------------------------------------------------------
(* SpecParse: parse_assignment_pass_pairs applied to token lists           *)

TokenChars == {"a", "b", ",", ":", " "}

\* all strings over S of length at most n
RECURSIVE StringsOver(_, _)
StringsOver(S, n) ==
    IF n = 0 THEN {<<>>}
    ELSE LET shorter == StringsOver(S, n - 1)
         IN  shorter \cup {Append(t, c) : t \in shorter, c \in S}

\* the three tokens the specification gives as examples
ExampleAB == <<"a", ",", "b", ":", "p", "1", ",", "p", "2">>
ExampleA == <<"a">>
ExampleAColon == <<"a", ":">>

ArgLists ==
    {<<t>> : t \in StringsOver(TokenChars, MaxTokenLen) \ {<<>>}}
    \cup {<<t, u>> : t, u \in StringsOver(TokenChars, MaxShortLen) \ {<<>>}}
    \cup {<<ExampleAB>>, <<ExampleA>>, <<ExampleAColon>>,
          <<ExampleAB, ExampleA, ExampleAColon>>}

InitParse ==
    /\ fs = NaturalFs
    /\ override = NoOverride
    /\ pc = "idle"
    /\ run = NoRun
    /\ last = NoCall
    /\ inp \in {[done |-> TRUE, args |-> a] : a \in ArgLists}
    /\ out = NoValue

ParseStep ==
    /\ ~out.done
    /\ out' = [done |-> TRUE, pairs |-> parse_assignment_pass_pairs(inp.args)]
    /\ UNCHANGED <<fs, override, pc, run, last, inp>>

NextParse == ParseStep

SpecParse == InitParse /\ [][NextParse]_vars

\* the trimmed text of s between positions p and q, both excluded
Trimmed(s, p, q) ==
    LET solid == {j \in (p + 1)..(q - 1) : s[j] # " "}
    IN  IF solid = {} THEN <<>>
        ELSE SubSeq(s, CHOOSE j \in solid : \A k \in solid : j <= k,
                       CHOOSE j \in solid : \A k \in solid : k <= j)

\* what the contract asks of one side of a token: the text between
\* consecutive commas, trimmed, with the empty results left out
RECURSIVE FieldsFrom(_, _)
FieldsFrom(s, p) ==
    IF p > Len(s) THEN <<>>
    ELSE LET commas == {j \in (p + 1)..Len(s) : s[j] = ","}
             q == IF commas = {} THEN Len(s) + 1
                  ELSE CHOOSE j \in commas : \A k \in commas : j <= k
             f == Trimmed(s, p, q)
         IN  (IF f = <<>> THEN <<>> ELSE <<f>>) \o FieldsFrom(s, q)

\* what the contract asks of one token
ExpectedPair(arg) ==
    LET colons == {j \in 1..Len(arg) : arg[j] = ":"}
        c == IF colons = {} THEN Len(arg) + 1
             ELSE CHOOSE j \in colons : \A k \in colons : j <= k
    IN  [assignments |-> FieldsFrom(SubSeq(arg, 1, c - 1), 0),
         pass_files  |-> FieldsFrom(SubSeq(arg, c + 1, Len(arg)), 0)]

\* C7: every token yields exactly one pair; the token is split at its first
\* ":" only, each side is split on ",", fields empty after trimming are
\* discarded, and a token with no ":" or with nothing after it has no
\* password files.
C7_PairParsing ==
    out.done =>
        /\ Len(out.pairs) = Len(inp.args)
        /\ \A i \in 1..Len(inp.args) :
              /\ out.pairs[i] = ExpectedPair(inp.args[i])
              /\ (Find(inp.args[i], ":") = 0
                    \/ Find(inp.args[i], ":") = Len(inp.args[i]))
                 => out.pairs[i].pass_files = <<>>
        /\ inp.args = <<ExampleAB, ExampleA, ExampleAColon>> =>
              out.pairs = <<[assignments |-> <<<<"a">>, <<"b">>>>,
                             pass_files |-> <<<<"p", "1">>, <<"p", "2">>>>],
                            [assignments |-> <<<<"a">>>>, pass_files |-> <<>>],
                            [assignments |-> <<<<"a">>>>, pass_files |-> <<>>]>>

\* a token with two colons and blanks has been parsed
C7_Witness ==
    /\ out.done
    /\ inp.args = <<<<"a", ":", " ", ":">>>>
    /\ out.pairs[1].pass_files = <<<<":">>>>

----------------------------------------------------------------------------
(* SpecYaml: parse_yaml_config and validation applied to YAML documents    *)

\* the password_files values a document may give
PasswordValues ==
    {PyStr(UP), PyStr(BAK), PyList(<<UP>>), PyList(<<UP, BAK>>), PyList(<<>>),
     PyNone}

\* the items of a document: an assignment name and a password_files value
YamlItems == [name : {XH1, H10}, pw : PasswordValues]

YamlItemLists ==
    {l \in ListsOver(YamlItems, MaxPairs) :
        l # <<>> /\ \A i, j \in 1..Len(l) : i # j => l[i].name # l[j].name}

\* the same items written in each of the three shapes
MappingDocOf(items) ==
    PyDict([assignments |->
              PyMap([i \in 1..Len(items) |-> [k |-> items[i].name, v |-> items[i].pw]])])
DeploymentsDocOf(items) ==
    PyDict([deployments |->
              PyList([i \in 1..Len(items) |->
                        PyDict([assignments |-> PyList(<<items[i].name>>),
                                password_files |-> items[i].pw])])])
ListDocOf(items) ==
    PyList([i \in 1..Len(items) |->
              PyDict([assignment |-> PyStr(items[i].name),
                      password_files |-> items[i].pw])])

DocOf(shape, items) ==
    CASE shape = "mapping"     -> MappingDocOf(items)
      [] shape = "deployments" -> DeploymentsDocOf(items)
      [] shape = "list"        -> ListDocOf(items)

InitYaml ==
    /\ fs = NaturalFs
    /\ override = NoOverride
    /\ pc = "idle"
    /\ run = NoRun
    /\ last = NoCall
    /\ inp \in {[done |-> TRUE, shape |-> sh, items |-> l] :
                   sh \in {"mapping", "deployments", "list"}, l \in YamlItemLists}
    /\ out = NoValue

YamlStep ==
    /\ ~out.done
    /\ LET pairs == parse_yaml_config(DocOf(inp.shape, inp.items))
       IN  out' = [done |-> TRUE, pairs |-> pairs,
                   valid |-> validate_assignment_pass_pairs(fs, pairs)]
    /\ UNCHANGED <<fs, override, pc, run, last, inp>>

NextYaml == YamlStep

SpecYaml == InitYaml /\ [][NextYaml]_vars

\* C8: in each of the three shapes a password_files value that is a single
\* string becomes the one-element list holding the whole string, and
\* validation sees that one name, not its characters.
C8_ScalarCoerced ==
    out.done =>
        \A i \in 1..Len(inp.items) :
            inp.items[i].pw.t = "str" =>
                /\ out.pairs[i].pass_files = PyList(<<inp.items[i].pw.s>>)
                /\ out.valid[i].pass_files = <<inp.items[i].pw.s>>

----------------------------------------------------------------------------
(* SpecValidate: validate_assignment_pass_pairs applied to pairs           *)

\* refs of every kind: a directory, a regular file, a missing path
ValidateRefs == {XH1, UP, Missing}

\* pairs naming at most MaxRefs refs
ValidatePairs ==
    {pair \in [assignments : {l \in ListsOver(ValidateRefs, MaxRefs) : NoRepeat(l)},
               pass_files : {l \in ListsOver(ValidateRefs, MaxRefs) : NoRepeat(l)}] :
        Len(pair.assignments) + Len(pair.pass_files) <= MaxRefs}

InitValidate ==
    /\ fs = NaturalFs
    /\ override = NoOverride
    /\ pc = "idle"
    /\ run = NoRun
    /\ last = NoCall
    /\ inp \in {[done |-> TRUE, pairs |-> l] :
                   l \in ListsOver(ValidatePairs, MaxPairs)}
    /\ out = NoValue

ValidateStep ==
    /\ ~out.done
    /\ out' = [done |-> TRUE,
               valid |-> validate_assignment_pass_pairs(fs, AsPyPairs(inp.pairs))]
    /\ UNCHANGED <<fs, override, pc, run, last, inp>>

NextValidate == ValidateStep

SpecValidate == InitValidate /\ [][NextValidate]_vars

\* what the contract asks of validation, pair by pair
ExpectedValid(pairs) ==
    LET IsDirectory(a) == KindOf(fs, a) = "dir"
        IsRegular(p) == KindOf(fs, p) = "file"
        Filtered(pair) ==
            [assignments |-> SelectSeq(pair.assignments, IsDirectory),
             pass_files |-> SelectSeq(pair.pass_files, IsRegular)]
        Kept(pair) == pair.assignments # <<>>
    IN  SelectSeq([i \in 1..Len(pairs) |-> Filtered(pairs[i])], Kept)

\* C10: validation keeps of each pair exactly the assignments that are
\* directories and the password files that are regular files, keeps the pair
\* iff it has a valid assignment, and keeps the pairs in order.
C10_ValidationFilters == out.done => out.valid = ExpectedValid(inp.pairs)

\* a pair with a valid password file and no valid assignment was dropped and
\* a pair with a valid assignment and no valid password file was kept
C10_Witness ==
    /\ out.done
    /\ inp.pairs = <<[assignments |-> <<UP>>, pass_files |-> <<UP>>],
                     [assignments |-> <<XH1>>, pass_files |-> <<Missing>>]>>
    /\ out.valid = <<[assignments |-> <<XH1>>, pass_files |-> <<>>]>>

----------------------------------------------------------------------------
(* SpecWrite: the write of update_docker_compose_override step by step,    *)
(* with another process reading the override file                          *)

\* the override files a successful earlier call leaves
PriorOverrides ==
    {NoOverride}
    \cup {o.file : o \in {x \in UNION {PlannerOutcomes(NaturalFs, NoOverride,
                                              in.assignments, in.config_file,
                                              in.pass_files) : in \in PlannerInputs} :
                            x.ok}}

\* a call about to write: its arguments, the file it found and all_volumes
InitWrite ==
    /\ fs = NaturalFs
    /\ override \in PriorOverrides
    /\ pc = "idle"
    /\ run = NoRun
    /\ last = NoCall
    /\ \E in \in PlannerInputs :
          inp = [done |-> FALSE, before |-> override,
                 all |-> AllVolumes(fs, override, in.assignments, in.config_file,
                                    in.pass_files)]
    /\ out = NoValue

\* lines 173-178: nothing but the data volume, the file is removed
WriteRemove ==
    /\ pc = "idle"
    /\ Len(inp.all) <= 1
    /\ override' = NoOverride
    /\ pc' = "closed"
    /\ UNCHANGED <<fs, run, last, inp, out>>

\* line 190: open(..., "w") creates the file or cuts it to length zero
WriteOpen ==
    /\ pc = "idle"
    /\ Len(inp.all) > 1
    /\ override' = TruncatedOverride
    /\ pc' = "opened"
    /\ UNCHANGED <<fs, run, last, inp, out>>

\* line 191: yaml.dump writes into the open file; the buffer is flushed when
\* it is full, so the file holds the document up to its k-th volume
WriteFlush(k) ==
    /\ pc = "opened"
    /\ k < Len(inp.all)
    /\ override' = OverrideFile(SubSeq(inp.all, 1, k))
    /\ pc' = "flushed"
    /\ UNCHANGED <<fs, run, last, inp, out>>

\* the end of the with block: the rest is flushed and the file closed
WriteClose ==
    /\ pc \in {"opened", "flushed"}
    /\ override' = OverrideFile(inp.all)
    /\ pc' = "closed"
    /\ UNCHANGED <<fs, run, last, inp, out>>

\* lines 198-200: an exception ends the write where it is
WriteFail ==
    /\ pc \in {"idle", "opened", "flushed"}
    /\ Len(inp.all) > 1
    /\ pc' = "closed"
    /\ UNCHANGED <<fs, override, run, last, inp, out>>

\* lines 94-103 in another process: the override file is read as it is now
ReadOverride ==
    /\ out' = [done |-> TRUE, seen |-> override,
               existing_volumes |-> ExistingVolumes(override)]
    /\ UNCHANGED <<fs, override, pc, run, last, inp>>

NextWrite ==
    \/ WriteRemove
    \/ WriteOpen
    \/ \E k \in 1..MaxRefs : WriteFlush(k)
    \/ WriteClose
    \/ WriteFail
    \/ ReadOverride

SpecWrite == InitWrite /\ [][NextWrite]_vars

\* the file after the call: all_volumes written, or no file when only the
\* data volume is left
NewOverride == IF Len(inp.all) <= 1 THEN NoOverride ELSE OverrideFile(inp.all)

\* C15: whenever another process reads the override file while the planner
\* replaces it, it finds the complete previous file or the complete new
\* file, never an empty or partly written one.
C15_AtomicPersistence ==
    out.done => out.seen \in {inp.before, NewOverride}

----------------------------------------------------------------------------
(* SpecWait: wait_for_container poll by poll                               *)

\* the default of the max_wait parameter
max_wait == 60

\* largest max_wait tried besides the default
MaxPolls == 3

\* what one poll can find: docker ps returned 0 with "Up" in its output,
\* anything else it returned, or run_command raised
Reports == {"up", "down", "error"}

\* the history of the polls: how many were issued, what the last one found,
\* whether one found the container up, how many were issued after that one
NoPolls ==
    [done |-> FALSE, polls |-> 0, report |-> "none", up_seen |-> FALSE,
     late |-> 0, result |-> FALSE]

InitWait ==
    /\ fs = NaturalFs
    /\ override = NoOverride
    /\ pc = "wait"
    /\ run = NoRun
    /\ last = NoCall
    /\ \E m \in (0..MaxPolls) \cup {max_wait} : inp = [done |-> FALSE, max_wait |-> m]
    /\ out = NoPolls

\* a wait_for_container that sleeps and polls again whatever the poll found
PollNoReturn(report) ==
    /\ pc = "wait"
    /\ out.polls < inp.max_wait
    /\ out' = [out EXCEPT !.polls = @ + 1, !.report = report,
                          !.up_seen = @ \/ report = "up",
                          !.late = @ + (IF out.up_seen THEN 1 ELSE 0)]
    /\ UNCHANGED <<fs, override, pc, run, last, inp>>

\* one pass of the loop (lines 69-84): a poll, then return True or sleep
Poll(report) ==
    /\ pc = "wait"
    /\ out.polls < inp.max_wait
    /\ out' = [out EXCEPT !.polls = @ + 1, !.report = report,
                          !.up_seen = @ \/ report = "up",
                          !.late = @ + (IF out.up_seen THEN 1 ELSE 0),
                          !.done = report = "up", !.result = report = "up"]
    /\ pc' = IF report = "up" THEN "returned" ELSE "wait"
    /\ UNCHANGED <<fs, override, run, last, inp>>

\* the loop ran out (lines 86-87)
WaitTimeout ==
    /\ pc = "wait"
    /\ out.polls = inp.max_wait
    /\ out' = [out EXCEPT !.done = TRUE, !.result = FALSE]
    /\ pc' = "returned"
    /\ UNCHANGED <<fs, override, run, last, inp>>

NextWait ==
    \/ \E report \in Reports : Poll(report)
    \/ WaitTimeout

\* each pass of the loop ends: the poll returns and the sleep is one second
SpecWait == InitWait /\ [][NextWait]_vars /\ WF_vars(NextWait)

\* what holds of the polls at every moment of a wait
WaitExact ==
    /\ out.polls <= inp.max_wait
    /\ out.late = 0
    /\ out.done =>
          /\ out.result <=> out.up_seen
          /\ out.result => out.report = "up"
          /\ ~out.result => out.polls = inp.max_wait

\* C21: wait_for_container returns after at most max_wait polls; it returns
\* True exactly when a poll found the container up, polls no more after
\* that poll, and returns False once max_wait polls found it not up.
C21_WaitBounded == []WaitExact /\ <>(pc = "returned")

\* waits with the default bound that end at the last poll: one finds the
\* container up there, another gives up
C21_Witness ==
    /\ out.done /\ inp.max_wait = max_wait /\ out.polls = max_wait

----------------------------------------------------------------------------
(* SpecLinks: create_pass_file_links applied to lists of validated pairs   *)

\* the assignment lists and password-file lists of the pairs tried
LinkAssignments == {<<XH1>>, <<H10>>, <<XH1, H10>>, <<Dot, H10>>}
LinkPassFiles == {<<>>, <<UP>>, <<UP, BAK>>}

LinkPairs == [assignments : LinkAssignments, pass_files : LinkPassFiles]

LinkPairLists == {l \in ListsOver(LinkPairs, MaxPairs) : TRUE}

InitLinks ==
    /\ fs = NaturalFs
    /\ override = NoOverride
    /\ pc = "links"
    /\ run = NoRun
    /\ last = NoCall
    /\ \E pairs \in LinkPairLists : inp = [done |-> FALSE, pairs |-> pairs]
    /\ out = NoValue

\* one call of create_pass_file_links, with one outcome of every command
LinkStep ==
    /\ pc = "links"
    /\ \E o \in create_pass_file_links(inp.pairs) :
          out' = [done |-> TRUE, trace |-> o.trace, ok |-> o.ok]
    /\ pc' = "returned"
    /\ UNCHANGED <<fs, override, run, last, inp>>

NextLinks == LinkStep

SpecLinks == InitLinks /\ [][NextLinks]_vars

\* the (assignment, pair) visits of the link stage in order: the basename
\* of the assignment and the password files of its pair
RECURSIVE LinkVisits(_)
LinkVisits(pairs) ==
    IF pairs = <<>> THEN <<>>
    ELSE LET pair == Head(pairs)
             names == get_assignment_basenames(pair.assignments)
         IN  (IF pair.pass_files = <<>> THEN <<>>
              ELSE [j \in 1..Len(SelectSeq(names, LAMBDA b : b \notin BadBasenames)) |->
                       [b |-> SelectSeq(names, LAMBDA b : b \notin BadBasenames)[j],
                        pass_files |-> pair.pass_files]])
             \o LinkVisits(Tail(pairs))

\* the positions of the steps named e in a trace, in order
RECURSIVE PositionsFrom(_, _, _)
PositionsFrom(trace, e, i) ==
    IF i > Len(trace) THEN <<>>
    ELSE (IF trace[i].e = e THEN <<i>> ELSE <<>>) \o PositionsFrom(trace, e, i + 1)

\* the steps of a trace between the j-th test -d and the next one
VisitSteps(trace, j) ==
    LET d == PositionsFrom(trace, "test_d", 1)
    IN  SubSeq(trace, d[j] + 1, IF j < Len(d) THEN d[j + 1] - 1 ELSE Len(trace))

\* the password files a sequence of steps checked, in order
CheckedFiles(steps) ==
    LET f == PositionsFrom(steps, "test_f", 1)
    IN  [k \in 1..Len(f) |-> steps[f[k]].p]

\* the basenames of a list of password files
RECURSIVE Basenames(_)
Basenames(pass_files) ==
    IF pass_files = <<>> THEN <<>>
    ELSE <<Basename(Head(pass_files))>> \o Basenames(Tail(pass_files))

\* no ln -s of the trace failed
NoLinkFailed(trace) == \A i \in 1..Len(trace) : trace[i].e = "ln" => trace[i].ok

\* C22: as long as no ln -s fails, a failed test -d skips the links of that
\* assignment alone and a failed test -f skips that one link alone: every
\* assignment of every pair with password files is still checked, every
\* password file of a pair is still checked for each assignment found, every
\* file found is linked, and create_pass_file_links returns True.
C22_PreCheckLocal ==
    (out.done /\ NoLinkFailed(out.trace)) =>
        LET visits == LinkVisits(inp.pairs)
            d == PositionsFrom(out.trace, "test_d", 1)
        IN  /\ out.ok
            /\ Len(d) = Len(visits)
            /\ \A j \in 1..Len(d) :
                  /\ out.trace[d[j]].a = visits[j].b
                  /\ IF out.trace[d[j]].ok
                     THEN CheckedFiles(VisitSteps(out.trace, j))
                              = Basenames(visits[j].pass_files)
                     ELSE VisitSteps(out.trace, j) = <<>>
            /\ \A i \in 1..Len(out.trace) :
                  (out.trace[i].e = "test_f" /\ out.trace[i].ok) =>
                      /\ i + 2 <= Len(out.trace)
                      /\ out.trace[i + 1].e = "rm"
                      /\ out.trace[i + 2].e = "ln"
                      /\ out.trace[i + 2].p = out.trace[i].p

\* a call in which a directory check and a file check failed and links
\* were still created after each of them
C22_Witness ==
    /\ out.done /\ out.ok
    /\ \E i, j, k, l \in 1..Len(out.trace) :
          /\ i < j /\ k < l
          /\ out.trace[i].e = "test_d" /\ ~out.trace[i].ok
          /\ out.trace[k].e = "test_f" /\ ~out.trace[k].ok
          /\ out.trace[j].e = "ln" /\ out.trace[j].ok
          /\ out.trace[l].e = "ln" /\ out.trace[l].ok

====
